---- MODULE Spec2Model ----
(***************************************************************************)
(* A model of interactive_app.py: the Agent class (prompt formatting, the  *)
(* model call and its error handling), run_workflow (the four-stage chain) *)
(* and main (the numbered menu and what it prints).                        *)
(*                                                                         *)
(* Text is a sequence of one-character strings, so that str.strip(), the   *)
(* substring tests ("Error" in r) and str.format act on characters.        *)
(* Optional[str] is a record: None is [some |-> FALSE, text |-> << >>].    *)
(***************************************************************************)
EXTENDS Integers, Sequences, FiniteSets, TLC

\* how many blanks may surround a typed line or a model completion
MaxPad == 1

\* the GeneralDoctor prompt template, character by character
Template_GeneralDoctor ==
   << "\n", " ", " ", " ", " ", " ", " ", " ", " ", " ", " ", " ", " ", " ", " ", " ",
      " ", "Y", "o", "u", " ", "a", "r", "e", " ", "a", " ", "m", "e", "d", "i", "c",
      "a", "l", " ", "a", "s", "s", "i", "s", "t", "a", "n", "t", " ", "a", "n", "a",
      "l", "y", "z", "i", "n", "g", " ", "p", "a", "t", "i", "e", "n", "t", "-", "r",
      "e", "p", "o", "r", "t", "e", "d", " ", "s", "y", "m", "p", "t", "o", "m", "s",
      ".", " ", "P", "r", "o", "v", "i", "d", "e", " ", "2", "-", "3", " ", "p", "o",
      "s", "s", "i", "b", "l", "e", " ", "c", "o", "n", "d", "i", "t", "i", "o", "n",
      "s", " ", "w", "i", "t", "h", " ", "b", "r", "i", "e", "f", " ", "r", "e", "a",
      "s", "o", "n", "s", ",", " ", "u", "s", "i", "n", "g", " ", "t", "h", "i", "s",
      " ", "e", "x", "a", "c", "t", " ", "f", "o", "r", "m", "a", "t", ":", "\n", " ",
      " ", " ", " ", " ", " ", " ", " ", " ", " ", " ", " ", " ", " ", " ", " ", "-",
      " ", "C", "o", "n", "d", "i", "t", "i", "o", "n", " ", "1", ":", " ", "[", "N",
      "a", "m", "e", "]", " ", "-", " ", "[", "R", "e", "a", "s", "o", "n", "]", "\n",
      " ", " ", " ", " ", " ", " ", " ", " ", " ", " ", " ", " ", " ", " ", " ", " ",
      "-", " ", "C", "o", "n", "d", "i", "t", "i", "o", "n", " ", "2", ":", " ", "[",
      "N", "a", "m", "e", "]", " ", "-", " ", "[", "R", "e", "a", "s", "o", "n", "]",
      "\n", " ", " ", " ", " ", " ", " ", " ", " ", " ", " ", " ", " ", " ", " ", " ",
      " ", "-", " ", "C", "o", "n", "d", "i", "t", "i", "o", "n", " ", "3", ":", " ",
      "[", "N", "a", "m", "e", "]", " ", "-", " ", "[", "R", "e", "a", "s", "o", "n",
      "]", "\n", " ", " ", " ", " ", " ", " ", " ", " ", " ", " ", " ", " ", " ", " ",
      " ", " ", "I", "n", "p", "u", "t", ":", " ", "{", "s", "y", "m", "p", "t", "o",
      "m", "s", "}", "\n", " ", " ", " ", " ", " ", " ", " ", " ", " ", " ", " ", " " >>

\* the Diagnosis prompt template, character by character
Template_Diagnosis ==
   << "\n", " ", " ", " ", " ", " ", " ", " ", " ", " ", " ", " ", " ", " ", " ", " ",
      " ", "Y", "o", "u", " ", "a", "r", "e", " ", "a", " ", "m", "e", "d", "i", "c",
      "a", "l", " ", "a", "s", "s", "i", "s", "t", "a", "n", "t", " ", "r", "e", "v",
      "i", "e", "w", "i", "n", "g", " ", "a", " ", "p", "r", "e", "l", "i", "m", "i",
      "n", "a", "r", "y", " ", "a", "s", "s", "e", "s", "s", "m", "e", "n", "t", ".",
      " ", "S", "u", "g", "g", "e", "s", "t", " ", "a", " ", "l", "i", "k", "e", "l",
      "y", " ", "c", "o", "n", "d", "i", "t", "i", "o", "n", ",", " ", "c", "l", "i",
      "n", "i", "c", " ", "t", "y", "p", "e", ",", " ", "a", "n", "d", " ", "s", "p",
      "e", "c", "i", "a", "l", "i", "s", "t", " ", "t", "y", "p", "e", ",", " ", "u",
      "s", "i", "n", "g", " ", "t", "h", "i", "s", " ", "e", "x", "a", "c", "t", " ",
      "f", "o", "r", "m", "a", "t", ":", "\n", " ", " ", " ", " ", " ", " ", " ", " ",
      " ", " ", " ", " ", " ", " ", " ", " ", "-", " ", "D", "i", "a", "g", "n", "o",
      "s", "i", "s", ":", " ", "[", "C", "o", "n", "d", "i", "t", "i", "o", "n", "]",
      " ", "-", " ", "[", "E", "x", "p", "l", "a", "n", "a", "t", "i", "o", "n", "]",
      "\n", " ", " ", " ", " ", " ", " ", " ", " ", " ", " ", " ", " ", " ", " ", " ",
      " ", "-", " ", "R", "e", "c", "o", "m", "m", "e", "n", "d", "e", "d", " ", "C",
      "l", "i", "n", "i", "c", ":", " ", "[", "C", "l", "i", "n", "i", "c", " ", "t",
      "y", "p", "e", "]", "\n", " ", " ", " ", " ", " ", " ", " ", " ", " ", " ", " ",
      " ", " ", " ", " ", " ", "-", " ", "R", "e", "c", "o", "m", "m", "e", "n", "d",
      "e", "d", " ", "D", "o", "c", "t", "o", "r", " ", "T", "y", "p", "e", ":", " ",
      "[", "S", "p", "e", "c", "i", "a", "l", "i", "s", "t", " ", "t", "y", "p", "e",
      "]", "\n", " ", " ", " ", " ", " ", " ", " ", " ", " ", " ", " ", " ", " ", " ",
      " ", " ", "I", "n", "p", "u", "t", ":", " ", "{", "p", "r", "e", "l", "i", "m",
      "i", "n", "a", "r", "y", "_", "a", "s", "s", "e", "s", "s", "m", "e", "n", "t",
      "}", "\n", " ", " ", " ", " ", " ", " ", " ", " ", " ", " ", " ", " " >>

\* the Medication prompt template, character by character
Template_Medication ==
   << "\n", " ", " ", " ", " ", " ", " ", " ", " ", " ", " ", " ", " ", " ", " ", " ",
      " ", "Y", "o", "u", " ", "a", "r", "e", " ", "a", " ", "m", "e", "d", "i", "c",
      "a", "l", " ", "a", "s", "s", "i", "s", "t", "a", "n", "t", " ", "p", "r", "o",
      "v", "i", "d", "i", "n", "g", " ", "t", "r", "e", "a", "t", "m", "e", "n", "t",
      " ", "o", "p", "t", "i", "o", "n", "s", " ", "b", "a", "s", "e", "d", " ", "o",
      "n", " ", "a", " ", "d", "i", "a", "g", "n", "o", "s", "i", "s", ".", " ", "S",
      "u", "g", "g", "e", "s", "t", " ", "2", "-", "3", " ", "m", "e", "d", "i", "c",
      "a", "t", "i", "o", "n", "s", " ", "w", "i", "t", "h", " ", "t", "h", "e", "i",
      "r", " ", "r", "o", "l", "e", ",", " ", "d", "o", "s", "a", "g", "e", ",", " ",
      "a", "n", "d", " ", "s", "c", "h", "e", "d", "u", "l", "e", ",", " ", "u", "s",
      "i", "n", "g", " ", "t", "h", "i", "s", " ", "e", "x", "a", "c", "t", " ", "f",
      "o", "r", "m", "a", "t", ":", "\n", " ", " ", " ", " ", " ", " ", " ", " ", " ",
      " ", " ", " ", " ", " ", " ", " ", "-", " ", "M", "e", "d", "i", "c", "a", "t",
      "i", "o", "n", " ", "1", ":", " ", "[", "N", "a", "m", "e", "]", " ", "-", " ",
      "R", "o", "l", "e", ":", " ", "[", "R", "o", "l", "e", "]", " ", "-", " ", "D",
      "o", "s", "a", "g", "e", ":", " ", "[", "D", "o", "s", "a", "g", "e", "]", " ",
      "-", " ", "S", "c", "h", "e", "d", "u", "l", "e", ":", " ", "[", "S", "c", "h",
      "e", "d", "u", "l", "e", "]", "\n", " ", " ", " ", " ", " ", " ", " ", " ", " ",
      " ", " ", " ", " ", " ", " ", " ", "-", " ", "M", "e", "d", "i", "c", "a", "t",
      "i", "o", "n", " ", "2", ":", " ", "[", "N", "a", "m", "e", "]", " ", "-", " ",
      "R", "o", "l", "e", ":", " ", "[", "R", "o", "l", "e", "]", " ", "-", " ", "D",
      "o", "s", "a", "g", "e", ":", " ", "[", "D", "o", "s", "a", "g", "e", "]", " ",
      "-", " ", "S", "c", "h", "e", "d", "u", "l", "e", ":", " ", "[", "S", "c", "h",
      "e", "d", "u", "l", "e", "]", "\n", " ", " ", " ", " ", " ", " ", " ", " ", " ",
      " ", " ", " ", " ", " ", " ", " ", "-", " ", "M", "e", "d", "i", "c", "a", "t",
      "i", "o", "n", " ", "3", ":", " ", "[", "N", "a", "m", "e", "]", " ", "-", " ",
      "R", "o", "l", "e", ":", " ", "[", "R", "o", "l", "e", "]", " ", "-", " ", "D",
      "o", "s", "a", "g", "e", ":", " ", "[", "D", "o", "s", "a", "g", "e", "]", " ",
      "-", " ", "S", "c", "h", "e", "d", "u", "l", "e", ":", " ", "[", "S", "c", "h",
      "e", "d", "u", "l", "e", "]", "\n", " ", " ", " ", " ", " ", " ", " ", " ", " ",
      " ", " ", " ", " ", " ", " ", " ", "I", "n", "p", "u", "t", ":", " ", "{", "d",
      "i", "a", "g", "n", "o", "s", "i", "s", "}", "\n", " ", " ", " ", " ", " ", " ",
      " ", " ", " ", " ", " ", " " >>

\* the FollowUp prompt template, character by character
Template_FollowUp ==
   << "\n", " ", " ", " ", " ", " ", " ", " ", " ", " ", " ", " ", " ", " ", " ", " ",
      " ", "Y", "o", "u", " ", "a", "r", "e", " ", "a", " ", "m", "e", "d", "i", "c",
      "a", "l", " ", "a", "s", "s", "i", "s", "t", "a", "n", "t", " ", "c", "o", "o",
      "r", "d", "i", "n", "a", "t", "i", "n", "g", " ", "f", "o", "l", "l", "o", "w",
      "-", "u", "p", " ", "c", "a", "r", "e", ".", " ", "S", "u", "g", "g", "e", "s",
      "t", " ", "2", " ", "f", "o", "l", "l", "o", "w", "-", "u", "p", " ", "a", "c",
      "t", "i", "o", "n", "s", " ", "a", "n", "d", " ", "m", "o", "n", "i", "t", "o",
      "r", "i", "n", "g", " ", "t", "i", "p", "s", ",", " ", "u", "s", "i", "n", "g",
      " ", "t", "h", "i", "s", " ", "e", "x", "a", "c", "t", " ", "f", "o", "r", "m",
      "a", "t", ":", "\n", " ", " ", " ", " ", " ", " ", " ", " ", " ", " ", " ", " ",
      " ", " ", " ", " ", "-", " ", "F", "o", "l", "l", "o", "w", "-", "U", "p", " ",
      "A", "c", "t", "i", "o", "n", " ", "1", ":", " ", "[", "A", "c", "t", "i", "o",
      "n", "]", " ", "-", " ", "[", "T", "i", "m", "e", "l", "i", "n", "e", "]", "\n",
      " ", " ", " ", " ", " ", " ", " ", " ", " ", " ", " ", " ", " ", " ", " ", " ",
      "-", " ", "F", "o", "l", "l", "o", "w", "-", "U", "p", " ", "A", "c", "t", "i",
      "o", "n", " ", "2", ":", " ", "[", "A", "c", "t", "i", "o", "n", "]", " ", "-",
      " ", "[", "T", "i", "m", "e", "l", "i", "n", "e", "]", "\n", " ", " ", " ", " ",
      " ", " ", " ", " ", " ", " ", " ", " ", " ", " ", " ", " ", "-", " ", "M", "o",
      "n", "i", "t", "o", "r", "i", "n", "g", " ", "f", "o", "r", " ", "N", "e", "w",
      " ", "I", "s", "s", "u", "e", "s", ":", " ", "[", "S", "u", "g", "g", "e", "s",
      "t", "i", "o", "n", "s", "]", "\n", " ", " ", " ", " ", " ", " ", " ", " ", " ",
      " ", " ", " ", " ", " ", " ", " ", "I", "n", "p", "u", "t", ":", "\n", " ", " ",
      " ", " ", " ", " ", " ", " ", " ", " ", " ", " ", " ", " ", " ", " ", "-", " ",
      "S", "y", "m", "p", "t", "o", "m", "s", ":", " ", "{", "s", "y", "m", "p", "t",
      "o", "m", "s", "}", "\n", " ", " ", " ", " ", " ", " ", " ", " ", " ", " ", " ",
      " ", " ", " ", " ", " ", "-", " ", "P", "r", "e", "l", "i", "m", "i", "n", "a",
      "r", "y", " ", "A", "s", "s", "e", "s", "s", "m", "e", "n", "t", ":", " ", "{",
      "p", "r", "e", "l", "i", "m", "i", "n", "a", "r", "y", "_", "a", "s", "s", "e",
      "s", "s", "m", "e", "n", "t", "}", "\n", " ", " ", " ", " ", " ", " ", " ", " ",
      " ", " ", " ", " ", " ", " ", " ", " ", "-", " ", "D", "i", "a", "g", "n", "o",
      "s", "i", "s", ":", " ", "{", "d", "i", "a", "g", "n", "o", "s", "i", "s", "}",
      "\n", " ", " ", " ", " ", " ", " ", " ", " ", " ", " ", " ", " ", " ", " ", " ",
      " ", "-", " ", "M", "e", "d", "i", "c", "a", "t", "i", "o", "n", "s", ":", " ",
      "{", "m", "e", "d", "i", "c", "a", "t", "i", "o", "n", "s", "}", "\n", " ", " ",
      " ", " ", " ", " ", " ", " ", " ", " ", " ", " " >>

\* the string returned for an empty or filtered response
BlockedSentinel ==
   << "B", "l", "o", "c", "k", "e", "d", ":", " ", "R", "e", "s", "p", "o", "n", "s",
      "e", " ", "f", "i", "l", "t", "e", "r", "e", "d", " ", "d", "u", "e", " ", "t",
      "o", " ", "c", "o", "n", "t", "e", "n", "t", " ", "r", "e", "s", "t", "r", "i",
      "c", "t", "i", "o", "n", "s" >>

\* the string returned on ResourceExhausted
RateLimitSentinel ==
   << "E", "r", "r", "o", "r", ":", " ", "R", "a", "t", "e", " ", "l", "i", "m", "i",
      "t", " ", "e", "x", "c", "e", "e", "d", "e", "d", ",", " ", "p", "l", "e", "a",
      "s", "e", " ", "t", "r", "y", " ", "a", "g", "a", "i", "n", " ", "l", "a", "t",
      "e", "r" >>

\* the string returned on Forbidden
PermissionSentinel ==
   << "E", "r", "r", "o", "r", ":", " ", "I", "n", "v", "a", "l", "i", "d", " ", "A",
      "P", "I", " ", "k", "e", "y", " ", "o", "r", " ", "i", "n", "s", "u", "f", "f",
      "i", "c", "i", "e", "n", "t", " ", "p", "e", "r", "m", "i", "s", "s", "i", "o",
      "n", "s" >>

\* "No output available"
NoOutput ==
   << "N", "o", " ", "o", "u", "t", "p", "u", "t", " ", "a", "v", "a", "i", "l", "a",
      "b", "l", "e" >>

\* str(None), what print(None) writes
NoneText ==
   << "N", "o", "n", "e" >>

\* "Error"
ErrorMarker ==
   << "E", "r", "r", "o", "r" >>

\* "Blocked"
BlockedMarker ==
   << "B", "l", "o", "c", "k", "e", "d" >>

\* the field name "symptoms"
K_symptoms ==
   << "s", "y", "m", "p", "t", "o", "m", "s" >>

\* the field name "preliminary_assessment"
K_preliminary_assessment ==
   << "p", "r", "e", "l", "i", "m", "i", "n", "a", "r", "y", "_", "a", "s", "s", "e",
      "s", "s", "m", "e", "n", "t" >>

\* the field name "diagnosis"
K_diagnosis ==
   << "d", "i", "a", "g", "n", "o", "s", "i", "s" >>

\* the field name "medications"
K_medications ==
   << "m", "e", "d", "i", "c", "a", "t", "i", "o", "n", "s" >>

\* the line printed for a choice outside 1-5
InvalidChoiceLine ==
   << "I", "n", "v", "a", "l", "i", "d", " ", "c", "h", "o", "i", "c", "e", ".", " ",
      "P", "l", "e", "a", "s", "e", " ", "s", "e", "l", "e", "c", "t", " ", "a", " ",
      "n", "u", "m", "b", "e", "r", " ", "b", "e", "t", "w", "e", "e", "n", " ", "1",
      " ", "a", "n", "d", " ", "5", "." >>

\* heading printed before the General Doctor output
Head_general_doctor ==
   << "\n", "G", "e", "n", "e", "r", "a", "l", " ", "D", "o", "c", "t", "o", "r", " ",
      "A", "s", "s", "e", "s", "s", "m", "e", "n", "t", ":" >>

\* heading printed before the Diagnosis output
Head_diagnosis ==
   << "\n", "D", "i", "a", "g", "n", "o", "s", "i", "s", ":" >>

\* heading printed before the Medication output
Head_medication ==
   << "\n", "M", "e", "d", "i", "c", "a", "t", "i", "o", "n", " ", "R", "e", "c", "o",
      "m", "m", "e", "n", "d", "a", "t", "i", "o", "n", "s", ":" >>

\* heading printed before the Follow-Up output
Head_follow_up ==
   << "\n", "F", "o", "l", "l", "o", "w", "-", "U", "p", " ", "R", "e", "c", "o", "m",
      "m", "e", "n", "d", "a", "t", "i", "o", "n", "s", ":" >>

\* sample text "cough"
TextCough ==
   << "c", "o", "u", "g", "h" >>

\* sample completion "flu"
TextFlu ==
   << "f", "l", "u" >>

\* sample completion "Refractive Error"
TextRefractiveError ==
   << "R", "e", "f", "r", "a", "c", "t", "i", "v", "e", " ", "E", "r", "r", "o", "r" >>

\* sample completion "Blocked nose"
TextBlockedNose ==
   << "B", "l", "o", "c", "k", "e", "d", " ", "n", "o", "s", "e" >>

---------------------------------------------------------------------------
\* Optional[str]

None == [some |-> FALSE, text |-> << >>]

Some(t) == [some |-> TRUE, text |-> t]

\* Python truthiness of an Optional[str]: None and "" are falsy
Truthy(v) == v.some /\ v.text # << >>

\* str(v), which is what print(v) writes
Str(v) == IF v.some THEN v.text ELSE NoneText

---------------------------------------------------------------------------
\* str operations

\* the characters str.strip() removes
Whitespace == {" ", "\n", "\t", "\r"}

RECURSIVE LStrip(_)
LStrip(s) ==
   IF s # << >> /\ Head(s) \in Whitespace THEN LStrip(Tail(s)) ELSE s

RECURSIVE RStrip(_)
RStrip(s) ==
   IF s # << >> /\ s[Len(s)] \in Whitespace
   THEN RStrip(SubSeq(s, 1, Len(s) - 1)) ELSE s

\* s.strip()
Strip(s) == RStrip(LStrip(s))

\* sub in s
Contains(sub, s) ==
   \E i \in 1..(Len(s) - Len(sub) + 1) : SubSeq(s, i, i + Len(sub) - 1) = sub

\* the first index >= i at which s holds character c, 0 when there is none
Find(s, c, i) ==
   LET hits == {j \in i..Len(s) : s[j] = c}
   IN IF hits = {} THEN 0 ELSE CHOOSE j \in hits : \A m \in hits : j <= m

\* dict.get(key): None when the key is absent
Get(d, k) == IF k \in DOMAIN d THEN Some(d[k]) ELSE None

\* PromptTemplate.from_template(template): the template cut at its {name}
\* fields, each part the text before a field and the field's name; the last
\* part is the text after the last field and has no field
RECURSIVE ParseFrom(_, _)
ParseFrom(tpl, i) ==
   LET open == Find(tpl, "{", i)
       close == Find(tpl, "}", open + 1)
   IN IF open = 0
      THEN << [lit |-> SubSeq(tpl, i, Len(tpl)), field |-> << >>] >>
      ELSE << [lit |-> SubSeq(tpl, i, open - 1),
               field |-> SubSeq(tpl, open + 1, close - 1)] >>
           \o ParseFrom(tpl, close + 1)

from_template(tpl) == ParseFrom(tpl, 1)

\* PromptTemplate.format(**kwargs): the parts of the template in order,
\* each field replaced by kwargs[name]
RECURSIVE Format(_, _)
Format(parts, kwargs) ==
   IF parts = << >> THEN << >>
   ELSE Head(parts).lit
        \o (IF Head(parts).field = << >> THEN << >> ELSE kwargs[Head(parts).field])
        \o Format(Tail(parts), kwargs)

---------------------------------------------------------------------------
\* The Agent class

Roles == <<"GeneralDoctor", "Diagnosis", "Medication", "FollowUp">>

NoAgent == [role |-> "", input_data |-> << >>, model |-> FALSE]

\* the four PromptTemplate objects create_prompt_template builds
PromptTemplate_GeneralDoctor == from_template(Template_GeneralDoctor)

PromptTemplate_Diagnosis == from_template(Template_Diagnosis)

PromptTemplate_Medication == from_template(Template_Medication)

PromptTemplate_FollowUp == from_template(Template_FollowUp)

\* create_prompt_template: templates[self.role]
create_prompt_template(role) ==
   CASE role = "GeneralDoctor" -> PromptTemplate_GeneralDoctor
     [] role = "Diagnosis" -> PromptTemplate_Diagnosis
     [] role = "Medication" -> PromptTemplate_Medication
     [] role = "FollowUp" -> PromptTemplate_FollowUp

\* the input fields run() tests before it formats the prompt
required_keys(role) ==
   CASE role = "GeneralDoctor" -> {K_symptoms}
     [] role = "Diagnosis" -> {K_preliminary_assessment}
     [] role = "Medication" -> {K_diagnosis}
     [] role = "FollowUp" ->
          {K_symptoms, K_preliminary_assessment, K_diagnosis, K_medications}

\* the missing-input test with any() where run() has all(): FollowUp is
\* skipped only when every field is missing
MissingInput_any(role, input_data) ==
   ~ \E k \in required_keys(role) : Truthy(Get(input_data, k))

\* run()'s test "a required input is missing": not input_data.get(key) for
\* the one key of the role, not all(input_data.get(key) ...) for FollowUp
MissingInput(role, input_data) ==
   ~ \A k \in required_keys(role) : Truthy(Get(input_data, k))

\* the completion returned stripped instead of as received
CheckResponse_stripped(response_text) ==
   IF Strip(response_text) = << >> THEN Some(BlockedSentinel)
   ELSE Some(Strip(response_text))

\* what run() does with a completion that came back without an exception
CheckResponse(response_text) ==
   IF Strip(response_text) = << >> THEN Some(BlockedSentinel)
   ELSE Some(response_text)

\* the except clauses with Forbidden falling to the catch-all clause
ExceptClause_forbidden_swallowed(kind) ==
   CASE kind = "ResourceExhausted" -> [raised |-> FALSE, value |-> Some(RateLimitSentinel)]
     [] kind = "Forbidden" -> [raised |-> FALSE, value |-> None]
     [] kind = "Exception" -> [raised |-> FALSE, value |-> None]
     [] OTHER -> [raised |-> TRUE, value |-> None]

\* the except clauses without the catch-all clause
ExceptClause_no_catch_all(kind) ==
   CASE kind = "ResourceExhausted" -> [raised |-> FALSE, value |-> Some(RateLimitSentinel)]
     [] kind = "Forbidden" -> [raised |-> FALSE, value |-> Some(PermissionSentinel)]
     [] OTHER -> [raised |-> TRUE, value |-> None]

\* the except clauses of run(): the value returned for an exception kind,
\* or "propagate" in .raised when no clause catches it
ExceptClause(kind) ==
   CASE kind = "ResourceExhausted" -> [raised |-> FALSE, value |-> Some(RateLimitSentinel)]
     [] kind = "Forbidden" -> [raised |-> FALSE, value |-> Some(PermissionSentinel)]
     [] kind = "Exception" -> [raised |-> FALSE, value |-> None]
     [] OTHER -> [raised |-> TRUE, value |-> None]

---------------------------------------------------------------------------
\* run_workflow

Keys == <<"general_doctor", "diagnosis", "medication", "follow_up">>

\* the stage test without "not r"
StageFailed_no_none(r) ==
   \/ Contains(ErrorMarker, r.text)
   \/ Contains(BlockedMarker, r.text)

\* the stage test without the "Error" marker
StageFailed_no_error(r) ==
   \/ ~ Truthy(r)
   \/ Contains(BlockedMarker, r.text)

\* the stage test without the "Blocked" marker
StageFailed_no_blocked(r) ==
   \/ ~ Truthy(r)
   \/ Contains(ErrorMarker, r.text)

\* the test after each of the first three stages
StageFailed(r) ==
   \/ ~ Truthy(r)
   \/ Contains(ErrorMarker, r.text)
   \/ Contains(BlockedMarker, r.text)

\* the stage outputs handed on stripped
StageInput_stripped(k, symptoms, results) ==
   CASE k = 1 -> (K_symptoms :> symptoms)
     [] k = 2 -> (K_preliminary_assessment :> Strip(results["general_doctor"].text))
     [] k = 3 -> (K_diagnosis :> Strip(results["diagnosis"].text))
     [] k = 4 -> (K_symptoms :> symptoms
                  @@ K_preliminary_assessment :> Strip(results["general_doctor"].text)
                  @@ K_diagnosis :> Strip(results["diagnosis"].text)
                  @@ K_medications :> Strip(results["medication"].text))

\* the keyword arguments run_workflow gives the agent of stage k
StageInput(k, symptoms, results) ==
   CASE k = 1 -> (K_symptoms :> symptoms)
     [] k = 2 -> (K_preliminary_assessment :> results["general_doctor"].text)
     [] k = 3 -> (K_diagnosis :> results["diagnosis"].text)
     [] k = 4 -> (K_symptoms :> symptoms
                  @@ K_preliminary_assessment :> results["general_doctor"].text
                  @@ K_diagnosis :> results["diagnosis"].text
                  @@ K_medications :> results["medication"].text)

---------------------------------------------------------------------------
\* main

\* dict.get(key, default)
GetDefault(d, k, default) == IF k \in DOMAIN d THEN d[k] ELSE default

\* result if result else "No output available"
OrNoOutput(result) == IF Truthy(result) THEN result ELSE Some(NoOutput)

Heading(k) ==
   CASE k = 1 -> Head_general_doctor
     [] k = 2 -> Head_diagnosis
     [] k = 3 -> Head_medication
     [] k = 4 -> Head_follow_up

\* the role run by menu choice c (2..5)
ChoiceRole(c) == Roles[c - 1]

\* the fields main asks for under menu choice c, in the order asked
ChoiceFields(c) ==
   CASE c = 1 -> <<K_symptoms>>
     [] c = 2 -> <<K_symptoms>>
     [] c = 3 -> <<K_preliminary_assessment>>
     [] c = 4 -> <<K_diagnosis>>
     [] c = 5 -> <<K_symptoms, K_preliminary_assessment, K_diagnosis, K_medications>>

---------------------------------------------------------------------------
\* Inputs: what the user may type and what the remote model may do

\* sample text "{x}", a typed line that looks like a template field
TextBraces == << "{", "x", "}" >>

Blanks(n) == [i \in 1..n |-> " "]

Pad(core) == { Blanks(i) \o core \o Blanks(j) : i, j \in 0..MaxPad }

\* the lines input() may return for a text field
TypedLines == UNION { Pad(c) : c \in {<< >>, TextCough, TextBraces} }

\* the lines input() may return at the menu
TypedChoices ==
   UNION { Pad(c) : c \in {<<"1">>, <<"2">>, <<"3">>, <<"4">>, <<"5">>, <<"6">>, << >>} }

\* the completions the model may return
Completions ==
   UNION { Pad(c) : c \in {<< >>, TextFlu, TextRefractiveError, TextBlockedNose} }

\* what self.model.invoke(prompt) may do: return a completion or raise
Outcomes ==
   [kind : {"text"}, text : Completions]
   \cup [kind : {"ResourceExhausted", "Forbidden", "Exception"}, text : {<< >>}]

\* get_user_input: input(prompt).strip()
get_user_input(line) == Strip(line)

\* the menu number of a stripped choice, 0 for anything but "1".."5"
ChoiceNum(c) ==
   CASE c = <<"1">> -> 1
     [] c = <<"2">> -> 2
     [] c = <<"3">> -> 3
     [] c = <<"4">> -> 4
     [] c = <<"5">> -> 5
     [] OTHER -> 0

---------------------------------------------------------------------------
\* State

VARIABLES
   pc,          \* where the program is
   choice,      \* main: the menu number chosen, 0 when invalid
   inputs,      \* main: the stripped text fields read, by field name
   stage,       \* run_workflow: the stage being run, 0 outside the workflow
   results,     \* run_workflow: the results dict
   agent,       \* the Agent last constructed
   prompt,      \* Agent.run: the formatted prompt
   ret,         \* the value Agent.run returned
   escaped,     \* an exception left Agent.run
   stdout,      \* what main has printed, one entry per print()
   constructed, \* the roles of the agents constructed, in order
   calls,       \* the calls of model.invoke, in order: the role and the outcome
   runs         \* the calls of Agent.run that returned, in order

vars ==
   <<pc, choice, inputs, stage, results, agent, prompt, ret, escaped,
     stdout, constructed, calls, runs>>

Init ==
   /\ pc = "menu"
   /\ choice = 0
   /\ inputs = << >>
   /\ stage = 0
   /\ results = << >>
   /\ agent = NoAgent
   /\ prompt = << >>
   /\ ret = None
   /\ escaped = FALSE
   /\ stdout = << >>
   /\ constructed = << >>
   /\ calls = << >>
   /\ runs = << >>

---------------------------------------------------------------------------
\* main, up to the construction of the first agent

\* choice = get_user_input(...); the else branch prints the invalid-choice line
main_choice ==
   /\ pc = "menu"
   /\ \E line \in TypedChoices :
        LET c == ChoiceNum(get_user_input(line)) IN
        /\ choice' = c
        /\ IF c = 0
           THEN /\ stdout' = Append(stdout, InvalidChoiceLine)
                /\ pc' = "exit"
           ELSE /\ stdout' = stdout
                /\ pc' = "input"
   /\ UNCHANGED <<inputs, stage, results, agent, prompt, ret, escaped,
                  constructed, calls, runs>>

\* the get_user_input calls of the chosen branch; choice 1 enters run_workflow
main_input ==
   /\ pc = "input"
   /\ \E typed \in [1..Len(ChoiceFields(choice)) -> TypedLines] :
        inputs' = [k \in {ChoiceFields(choice)[i] : i \in 1..Len(ChoiceFields(choice))} |->
                     get_user_input(typed[CHOOSE i \in 1..Len(ChoiceFields(choice)) :
                                             ChoiceFields(choice)[i] = k])]
   /\ stage' = IF choice = 1 THEN 1 ELSE 0
   /\ pc' = "construct"
   /\ UNCHANGED <<choice, results, agent, prompt, ret, escaped, stdout,
                  constructed, calls, runs>>

---------------------------------------------------------------------------
\* Agent

\* Agent.__init__, called through the role's subclass: the model is None
\* when ChatGoogleGenerativeAI(...) raises
Agent_init ==
   /\ pc = "construct"
   /\ LET role == IF choice = 1 THEN Roles[stage] ELSE ChoiceRole(choice)
          input_data == IF choice = 1
                        THEN StageInput(stage, inputs[K_symptoms], results)
                        ELSE inputs
      IN /\ \E model \in BOOLEAN :
              agent' = [role |-> role, input_data |-> input_data, model |-> model]
         /\ constructed' = Append(constructed, role)
   /\ pc' = "run"
   /\ UNCHANGED <<choice, inputs, stage, results, prompt, ret, escaped,
                  stdout, calls, runs>>

\* Agent.run up to the model call: no model or a missing input returns
\* None, otherwise the prompt is formatted
Agent_run ==
   /\ pc = "run"
   /\ IF ~ agent.model \/ MissingInput(agent.role, agent.input_data)
      THEN /\ ret' = None
           /\ runs' = Append(runs, [role |-> agent.role,
                                    input_data |-> agent.input_data,
                                    model |-> agent.model, ret |-> None])
           /\ pc' = "returned"
           /\ prompt' = prompt
      ELSE /\ prompt' = Format(create_prompt_template(agent.role), agent.input_data)
           /\ pc' = "invoke"
           /\ UNCHANGED <<ret, runs>>
   /\ UNCHANGED <<choice, inputs, stage, results, agent, escaped, stdout,
                  constructed, calls>>

\* response = self.model.invoke(prompt) and the rest of run(): the blank
\* test on the completion, or the except clause of the exception raised
model_invoke ==
   /\ pc = "invoke"
   /\ \E o \in Outcomes :
        LET handled == IF o.kind = "text"
                       THEN [raised |-> FALSE, value |-> CheckResponse(o.text)]
                       ELSE ExceptClause(o.kind)
        IN /\ calls' = Append(calls, [role |-> agent.role, kind |-> o.kind,
                                      text |-> o.text])
           /\ IF handled.raised
              THEN /\ escaped' = TRUE
                   /\ pc' = "crashed"
                   /\ UNCHANGED <<ret, runs>>
              ELSE /\ ret' = handled.value
                   /\ runs' = Append(runs, [role |-> agent.role,
                                            input_data |-> agent.input_data,
                                            model |-> agent.model,
                                            ret |-> handled.value])
                   /\ pc' = "returned"
                   /\ escaped' = escaped
   /\ UNCHANGED <<choice, inputs, stage, results, agent, prompt, stdout,
                  constructed>>

---------------------------------------------------------------------------
\* run_workflow

\* results[key] = agent.run(), then the failure test and the early return;
\* the fourth stage returns whatever it produced
run_workflow ==
   /\ pc = "returned"
   /\ choice = 1
   /\ results' = (Keys[stage] :> ret) @@ results
   /\ IF stage = 4 \/ StageFailed(ret)
      THEN /\ pc' = "workflow_returned"
           /\ stage' = stage
      ELSE /\ pc' = "construct"
           /\ stage' = stage + 1
   /\ UNCHANGED <<choice, inputs, agent, prompt, ret, escaped, stdout,
                  constructed, calls, runs>>

---------------------------------------------------------------------------
\* main, printing

\* choice 1: each heading, then results.get(key, "No output available")
main_print_workflow ==
   /\ pc = "workflow_returned"
   /\ stdout' = stdout \o
        <<Heading(1), Str(GetDefault(results, Keys[1], Some(NoOutput))),
          Heading(2), Str(GetDefault(results, Keys[2], Some(NoOutput))),
          Heading(3), Str(GetDefault(results, Keys[3], Some(NoOutput))),
          Heading(4), Str(GetDefault(results, Keys[4], Some(NoOutput)))>>
   /\ pc' = "exit"
   /\ UNCHANGED <<choice, inputs, stage, results, agent, prompt, ret,
                  escaped, constructed, calls, runs>>

\* choices 2 to 5: the heading, then result if result else "No output available"
main_print_agent ==
   /\ pc = "returned"
   /\ choice \in 2..5
   /\ stdout' = stdout \o <<Heading(choice - 1), Str(OrNoOutput(ret))>>
   /\ pc' = "exit"
   /\ UNCHANGED <<choice, inputs, stage, results, agent, prompt, ret,
                  escaped, constructed, calls, runs>>

Next ==
   \/ main_choice
   \/ main_input
   \/ Agent_init
   \/ Agent_run
   \/ model_invoke
   \/ run_workflow
   \/ main_print_workflow
   \/ main_print_agent

Spec == Init /\ [][Next]_vars

\* every step of the program is eventually taken: the program is one
\* thread, and a model call either returns or raises
FairSpec == Spec /\ WF_vars(Next)

---------------------------------------------------------------------------
\* Properties

\* a stage output that is None, empty, or holds "Error" or "Blocked"
FailedOutput(r) ==
   \/ ~ r.some
   \/ r.text = << >>
   \/ Contains(ErrorMarker, r.text)
   \/ Contains(BlockedMarker, r.text)

\* the three fixed strings run() returns in place of a completion
Sentinels == {BlockedSentinel, RateLimitSentinel, PermissionSentinel}

\* the model was invoked by the agent of this role
Invoked(role) == \E j \in 1..Len(calls) : calls[j].role = role

\* C1: in run_workflow, when one of the first three stages returns None,
\* empty text or text holding "Error" or "Blocked", the workflow returns at
\* once: that run is the last one, no later agent is constructed and the
\* model is not invoked again.
C1_HaltsAfterFailedStage ==
   choice = 1 =>
      \A i \in 1..Len(runs) :
         (i <= 3 /\ FailedOutput(runs[i].ret)) =>
            /\ Len(runs) = i
            /\ Len(constructed) = i
            /\ Len(calls) <= i
            /\ pc \in {"returned", "workflow_returned", "exit"}

\* the second stage returned a sentinel and main has printed the results
C1_Witness ==
   /\ choice = 1
   /\ pc = "exit"
   /\ Len(runs) = 2
   /\ runs[2].ret.some
   /\ runs[2].ret.text \in Sentinels

\* the fields each role needs, as the specification lists them
RequiredFields(role) ==
   CASE role = "GeneralDoctor" -> {K_symptoms}
     [] role = "Diagnosis" -> {K_preliminary_assessment}
     [] role = "Medication" -> {K_diagnosis}
     [] role = "FollowUp" ->
          {K_symptoms, K_preliminary_assessment, K_diagnosis, K_medications}

\* a field of the input is absent or empty
FieldMissing(input_data, k) == k \notin DOMAIN input_data \/ input_data[k] = << >>

\* C2: for every role, run() returns None and does not invoke the model
\* when a required input field is absent or empty; for FollowUp one missing
\* field of the four is enough.
C2_MissingInputSkipsCall ==
   \A i \in 1..Len(runs) :
      (\E k \in RequiredFields(runs[i].role) : FieldMissing(runs[i].input_data, k)) =>
         /\ runs[i].ret = None
         /\ ~ Invoked(runs[i].role)

\* a FollowUp agent with a model and exactly one empty field has returned
C2_Witness ==
   \E i \in 1..Len(runs) :
      /\ runs[i].role = "FollowUp"
      /\ runs[i].model
      /\ Cardinality({k \in RequiredFields("FollowUp") :
                        FieldMissing(runs[i].input_data, k)}) = 1
      /\ runs[i].ret = None

\* the run() that made call j
RunOfCall(j) == CHOOSE i \in 1..Len(runs) : runs[i].role = calls[j].role

\* C3: when the model call raises ResourceExhausted or Forbidden, run()
\* does not let the exception out and returns the fixed string of that
\* error, whatever the role and the input; the string holds "Error", and in
\* the workflow the stage counts as failed, so the workflow returns.
C3_ProviderErrorSentinel ==
   \A j \in 1..Len(calls) :
      calls[j].kind \in {"ResourceExhausted", "Forbidden"} =>
         /\ ~ escaped
         /\ \E i \in 1..Len(runs) : runs[i].role = calls[j].role
         /\ runs[RunOfCall(j)].ret =
               Some(IF calls[j].kind = "ResourceExhausted"
                    THEN RateLimitSentinel ELSE PermissionSentinel)
         /\ Contains(ErrorMarker, runs[RunOfCall(j)].ret.text)
         /\ choice = 1 =>
               /\ j = Len(calls)
               /\ Len(constructed) = j
               /\ pc \in {"returned", "workflow_returned", "exit"}

\* the third stage of a workflow met a permission error
C3_Witness ==
   /\ choice = 1
   /\ pc = "workflow_returned"
   /\ Len(calls) = 3
   /\ calls[3].kind = "Forbidden"
   /\ runs[3].ret = Some(PermissionSentinel)

\* C4: when the model call returns blank text (empty or whitespace only),
\* run() returns the "Blocked: ..." string, which is not one of the strings
\* returned for provider errors; when the text is not blank, run() returns
\* it unchanged.
C4_BlankIsBlockedElseUnchanged ==
   /\ BlockedSentinel \notin {RateLimitSentinel, PermissionSentinel}
   /\ \A j \in 1..Len(calls) :
         calls[j].kind = "text" =>
            /\ \E i \in 1..Len(runs) : runs[i].role = calls[j].role
            /\ runs[RunOfCall(j)].ret =
                  IF \A n \in 1..Len(calls[j].text) : calls[j].text[n] \in Whitespace
                  THEN Some(BlockedSentinel)
                  ELSE Some(calls[j].text)

\* a completion with blanks around it was returned as it came, and the next
\* completion was whitespace only
C4_Witness ==
   /\ Len(calls) = 2
   /\ calls[1].kind = "text"
   /\ Strip(calls[1].text) \notin {<< >>, calls[1].text}
   /\ runs[1].ret = Some(calls[1].text)
   /\ calls[2].kind = "text"
   /\ calls[2].text = << " " >>
   /\ runs[2].ret = Some(BlockedSentinel)

\* the line main printed for the agent of run i: after the heading of its
\* stage under choice 1, after the one heading otherwise
PrintedFor(i) == IF choice = 1 THEN stdout[2 * i] ELSE stdout[2]

\* a run that failed for a reason other than a provider error, a blank
\* completion or a missing input
OtherFailure(i) ==
   \/ ~ runs[i].model
   \/ \E j \in 1..Len(calls) :
         calls[j].role = runs[i].role /\ calls[j].kind = "Exception"

\* C5: any other failure of a stage (another exception, or a model that
\* failed to initialise) is swallowed: run() returns None without raising,
\* and main prints "No output available" for that stage under every menu
\* choice, choice 1 included.
C5_OtherFailureIsNoOutput ==
   /\ ~ escaped
   /\ \A i \in 1..Len(runs) :
         OtherFailure(i) =>
            /\ runs[i].ret = None
            /\ pc = "exit" => PrintedFor(i) = NoOutput

\* the position of the field {name} in a template
FieldAt(tpl, name) ==
   CHOOSE p \in 1..Len(tpl) :
      SubSeq(tpl, p, p + Len(name) + 1) = <<"{">> \o name \o <<"}">>

\* the template text before field name
Before(tpl, name) == SubSeq(tpl, 1, FieldAt(tpl, name) - 1)

\* the template text after field name
After(tpl, name) == SubSeq(tpl, FieldAt(tpl, name) + Len(name) + 2, Len(tpl))

\* the template text between the end of field a and the start of field b
Between(tpl, a, b) ==
   SubSeq(tpl, FieldAt(tpl, a) + Len(a) + 2, FieldAt(tpl, b) - 1)

\* the fixed text of each template around its fields
GeneralDoctor_before == Before(Template_GeneralDoctor, K_symptoms)

GeneralDoctor_after == After(Template_GeneralDoctor, K_symptoms)

Diagnosis_before == Before(Template_Diagnosis, K_preliminary_assessment)

Diagnosis_after == After(Template_Diagnosis, K_preliminary_assessment)

Medication_before == Before(Template_Medication, K_diagnosis)

Medication_after == After(Template_Medication, K_diagnosis)

FollowUp_before == Before(Template_FollowUp, K_symptoms)

FollowUp_between1 == Between(Template_FollowUp, K_symptoms, K_preliminary_assessment)

FollowUp_between2 == Between(Template_FollowUp, K_preliminary_assessment, K_diagnosis)

FollowUp_between3 == Between(Template_FollowUp, K_diagnosis, K_medications)

FollowUp_after == After(Template_FollowUp, K_medications)

\* C6: in run_workflow each stage's output goes unmodified into the next
\* prompt: the Diagnosis prompt holds the General Doctor output, the
\* Medication prompt the Diagnosis output, and the FollowUp prompt the
\* symptoms and the three outputs, each put verbatim in place of its field.
C6_OutputsPassedVerbatim ==
   (choice = 1 /\ pc = "invoke") =>
      /\ stage = Len(runs) + 1
      /\ stage = 1 =>
            prompt = GeneralDoctor_before \o inputs[K_symptoms] \o GeneralDoctor_after
      /\ stage = 2 =>
            prompt = Diagnosis_before \o runs[1].ret.text \o Diagnosis_after
      /\ stage = 3 =>
            prompt = Medication_before \o runs[2].ret.text \o Medication_after
      /\ stage = 4 =>
            prompt = FollowUp_before \o inputs[K_symptoms]
                     \o FollowUp_between1 \o runs[1].ret.text
                     \o FollowUp_between2 \o runs[2].ret.text
                     \o FollowUp_between3 \o runs[3].ret.text
                     \o FollowUp_after

\* the FollowUp prompt is about to be sent, the symptoms look like a
\* template field and every output handed on has blanks around it
C6_Witness ==
   /\ choice = 1
   /\ pc = "invoke"
   /\ stage = 4
   /\ inputs[K_symptoms] = TextBraces
   /\ \A i \in 1..3 : Strip(runs[i].ret.text) # runs[i].ret.text

\* C7: in a run of run_workflow the model is invoked at most four times,
\* at most once per stage and in the order GeneralDoctor, Diagnosis,
\* Medication, FollowUp: stage k is invoked only after every earlier stage
\* was invoked and returned a successful output.
C7_FixedOrderAfterSuccess ==
   choice = 1 =>
      /\ Len(calls) <= 4
      /\ \A j \in 1..Len(calls) :
            /\ calls[j].role = Roles[j]
            /\ \A m \in 1..(j - 1) :
                  /\ Len(runs) >= m
                  /\ runs[m].role = Roles[m]
                  /\ ~ FailedOutput(runs[m].ret)

\* the fourth stage was invoked
C7_Witness ==
   /\ choice = 1
   /\ Len(calls) = 4
   /\ calls[4].role = "FollowUp"

\* C8: run_workflow stops the chain only on failure: when every model call
\* returned non-blank text, all four stages are invoked, and the chain
\* stops before stage k+1 only when stage k returned None or one of the
\* fixed sentinel strings.
C8_StopsOnlyOnFailure ==
   (choice = 1 /\ pc = "workflow_returned") =>
      /\ (/\ Len(calls) = Len(runs)
          /\ \A j \in 1..Len(calls) :
                calls[j].kind = "text" /\ Strip(calls[j].text) # << >>)
         => Len(calls) = 4
      /\ Len(runs) < 4 =>
            \/ runs[Len(runs)].ret = None
            \/ runs[Len(runs)].ret.text \in Sentinels

\* C9: the mapping run_workflow returns holds general_doctor, its keys are
\* a prefix of (general_doctor, diagnosis, medication, follow_up), one per
\* stage that was run, and every entry but the last is a successful output.
C9_ResultsArePrefix ==
   (choice = 1 /\ pc \in {"workflow_returned", "exit"}) =>
      /\ "general_doctor" \in DOMAIN results
      /\ Len(runs) \in 1..4
      /\ DOMAIN results = {Keys[i] : i \in 1..Len(runs)}
      /\ \A i \in 1..Len(runs) :
            /\ results[Keys[i]] = runs[i].ret
            /\ runs[i].role = Roles[i]
            /\ i < Len(runs) => ~ FailedOutput(results[Keys[i]])

\* a mapping of three entries whose last entry is a sentinel
C9_Witness ==
   /\ choice = 1
   /\ pc = "workflow_returned"
   /\ DOMAIN results = {"general_doctor", "diagnosis", "medication"}
   /\ results["medication"].text \in Sentinels

\* C10: run_workflow always returns a results mapping and lets no exception
\* out, whatever the symptoms and whatever each model call does (text, blank
\* text, rate-limit error, permission error, another exception, a model
\* that failed to initialise); in the workflow only the first stage can
\* fail for a missing input.
C10_WorkflowReturns ==
   /\ [](~ escaped /\ pc # "crashed")
   /\ [](choice = 1 =>
            \A i \in 2..Len(runs) :
               \A k \in RequiredFields(runs[i].role) :
                  ~ FieldMissing(runs[i].input_data, k))
   /\ (choice = 1 /\ pc = "construct") ~> (pc = "workflow_returned")

\* the workflow returned after its second stage met an exception of no
\* special kind
C10_Witness ==
   /\ choice = 1
   /\ pc = "workflow_returned"
   /\ Len(calls) = 2
   /\ calls[2].kind = "Exception"
   /\ results["diagnosis"] = None

====
